---------------------------- MODULE Spec2Model ----------------------------
(***************************************************************************)
(* Model of src/app.py: the physical and cyber predictor handlers, the     *)
(* model registry they read and the two event tables they append to.       *)
(*                                                                         *)
(* Python floats are IEEE-754 binary64.  They are modelled bit-exactly:    *)
(* a finite double is sign * m * 2^e with 2^52 <= m < 2^53 (or zero), the  *)
(* mantissa kept as two machine-size halves (hi * 2^27 + lo).  Arithmetic  *)
(* is exact on multi-limb naturals and then rounded to nearest, ties to    *)
(* even, as the hardware does.                                             *)
(***************************************************************************)
EXTENDS Integers, Sequences, FiniteSets, TLC

-----------------------------------------------------------------------------
(* Unbounded naturals as little-endian sequences of limbs in base 2^13,    *)
(* with no leading zero limb.  Every intermediate product stays below 2^31.*)

LimbBits == 13
LimbBase == 2 ^ LimbBits

RECURSIVE LFromNat(_)
LFromNat(n) ==
    IF n = 0 THEN <<>> ELSE <<n % LimbBase>> \o LFromNat(n \div LimbBase)

RECURSIVE LTrim(_)
LTrim(a) ==
    IF a = <<>> THEN <<>>
    ELSE IF a[Len(a)] = 0 THEN LTrim(SubSeq(a, 1, Len(a) - 1)) ELSE a

Limb(a, i) == IF i >= 1 /\ i <= Len(a) THEN a[i] ELSE 0

RECURSIVE LAddC(_, _, _, _)
LAddC(a, b, i, c) ==
    IF i > Len(a) /\ i > Len(b)
    THEN (IF c > 0 THEN <<c>> ELSE <<>>)
    ELSE LET s == Limb(a, i) + Limb(b, i) + c
         IN  <<s % LimbBase>> \o LAddC(a, b, i + 1, s \div LimbBase)

LAdd(a, b) == LAddC(a, b, 1, 0)

RECURSIVE LSubC(_, _, _, _)
LSubC(a, b, i, c) ==
    IF i > Len(a) THEN <<>>
    ELSE LET s == Limb(a, i) - Limb(b, i) - c
         IN  <<(s + LimbBase) % LimbBase>>
               \o LSubC(a, b, i + 1, IF s < 0 THEN 1 ELSE 0)

\* a - b for a >= b
LSub(a, b) == LTrim(LSubC(a, b, 1, 0))

\* a * k for a small factor 0 <= k < 2^17
RECURSIVE LMulSmallC(_, _, _, _)
LMulSmallC(a, k, i, c) ==
    IF i > Len(a)
    THEN LFromNat(c)
    ELSE LET s == a[i] * k + c
         IN  <<s % LimbBase>> \o LMulSmallC(a, k, i + 1, s \div LimbBase)

LMulSmall(a, k) == IF k = 0 THEN <<>> ELSE LMulSmallC(a, k, 1, 0)

LShlLimbs(a, n) == IF a = <<>> \/ n <= 0 THEN a ELSE [i \in 1..n |-> 0] \o a

RECURSIVE LMul(_, _)
LMul(a, b) ==
    IF a = <<>> \/ b = <<>> THEN <<>>
    ELSE LAdd(LMulSmall(b, a[1]), LShlLimbs(LMul(Tail(a), b), 1))

\* Long division of a by the small integer 0 < d < 2^17, top limb first:
\* [q |-> quotient, r |-> remainder].
RECURSIVE LDivSmall(_, _)
LDivSmall(a, d) ==
    IF a = <<>> THEN [q |-> <<>>, r |-> 0]
    ELSE LET up == LDivSmall(Tail(a), d)
             r2 == up.r * LimbBase + a[1]
         IN  [q |-> LTrim(<<r2 \div d>> \o up.q), r |-> r2 % d]

RECURSIVE NatBitLen(_)
NatBitLen(n) == IF n = 0 THEN 0 ELSE 1 + NatBitLen(n \div 2)

LBitLen(a) ==
    IF a = <<>> THEN 0 ELSE (Len(a) - 1) * LimbBits + NatBitLen(a[Len(a)])

\* bit i (counted from 1, lowest first)
LBit(a, i) ==
    (Limb(a, ((i - 1) \div LimbBits) + 1) \div (2 ^ ((i - 1) % LimbBits))) % 2

LShl(a, k) ==
    IF k <= 0 THEN a
    ELSE LShlLimbs(LMulSmall(a, 2 ^ (k % LimbBits)), k \div LimbBits)

LShr(a, k) ==
    IF k <= 0 THEN a
    ELSE LDivSmall(SubSeq(a, (k \div LimbBits) + 1, Len(a)),
                   2 ^ (k % LimbBits)).q

\* some bit among the k lowest is set
LLowBitsSet(a, k) == \E i \in 1..k : LBit(a, i) = 1

RECURSIVE LToNat(_)
LToNat(a) == IF a = <<>> THEN 0 ELSE a[1] + LimbBase * LToNat(Tail(a))

RECURSIVE Pow10(_)
Pow10(k) == IF k = 0 THEN 1 ELSE 10 * Pow10(k - 1)

-----------------------------------------------------------------------------
(* binary64 *)

MantBits == 53
LoBits == 27
ScaleBits == 70

NaN == [k |-> "nan", s |-> 1, hi |-> 0, lo |-> 0, e |-> 0]
FZero == [k |-> "num", s |-> 1, hi |-> 0, lo |-> 0, e |-> 0]

\* the lowest k <= 27 bits of a, as an integer
LLowNat(a, k) == LToNat(LSub(a, LShl(LShr(a, k), k)))

FPack(s, m, e) ==
    [k |-> "num", s |-> s,
     hi |-> LToNat(LShr(m, LoBits)),
     lo |-> LLowNat(m, LoBits),
     e |-> e]

FMant(x) == LAdd(LShl(LFromNat(x.hi), LoBits), LFromNat(x.lo))

\* sign * M * 2^e (sticky: a nonzero part below M was already dropped),
\* rounded to nearest, ties to even, as a normalised double.
FRound(s, M, e, sticky) ==
    LET L == LBitLen(M) IN
    IF L = 0 THEN FZero
    ELSE IF L <= MantBits
    THEN FPack(s, LShl(M, MantBits - L), e - (MantBits - L))
    ELSE LET d    == L - MantBits
             kept == LShr(M, d)
             st   == sticky \/ LLowBitsSet(M, d - 1)
             up   == LBit(M, d) = 1 /\ (st \/ LBit(kept, 1) = 1)
             m1   == IF up THEN LAdd(kept, <<1>>) ELSE kept
         IN  IF LBitLen(m1) > MantBits
             THEN FPack(s, LShr(m1, 1), e + d + 1)
             ELSE FPack(s, m1, e + d)

\* float("n.ddd") for the decimal n / 10^k, correctly rounded
FFromDec(neg, n, k) ==
    LET dv == LDivSmall(LShl(LFromNat(n), ScaleBits), Pow10(k))
    IN  FRound(IF neg THEN -1 ELSE 1, dv.q, -ScaleBits, dv.r # 0)

FFromNat(n) == FFromDec(FALSE, n, 0)

\* x * y, x and y finite
FMul(x, y) == FRound(x.s * y.s, LMul(FMant(x), FMant(y)), x.e + y.e, FALSE)

FAlign(x, e) == LShl(FMant(x), x.e - e)

FMinE(x, y) == IF x.e <= y.e THEN x.e ELSE y.e

\* x + y for x, y >= 0
FAdd(x, y) ==
    LET e == FMinE(x, y)
    IN  FRound(1, LAdd(FAlign(x, e), FAlign(y, e)), e, FALSE)

FIsZero(x) == x.hi = 0 /\ x.lo = 0

\* |x| <= |y| for finite x, y
FMagLeq(x, y) ==
    IF FIsZero(x) THEN TRUE
    ELSE IF FIsZero(y) THEN FALSE
    ELSE IF x.e # y.e THEN x.e < y.e
    ELSE IF x.hi # y.hi THEN x.hi < y.hi
    ELSE x.lo <= y.lo

\* x - y for x >= y >= 0
FSub(x, y) ==
    LET e == FMinE(x, y)
    IN  FRound(1, LSub(FAlign(x, e), FAlign(y, e)), e, FALSE)

\* Python's x <= y on floats: False as soon as one side is NaN
FLeq(x, y) ==
    IF x.k = "nan" \/ y.k = "nan" THEN FALSE
    ELSE IF FIsZero(x) /\ FIsZero(y) THEN TRUE
    ELSE IF FIsZero(x) THEN y.s = 1
    ELSE IF FIsZero(y) THEN x.s = -1
    ELSE IF x.s # y.s THEN x.s = -1
    ELSE IF x.s = 1 THEN FMagLeq(x, y) ELSE FMagLeq(y, x)

FLess(x, y) ==
    IF x.k = "nan" \/ y.k = "nan" THEN FALSE ELSE ~FLeq(y, x)

\* the nearest integer to the finite double x >= 0, halves upwards
FRoundToInt(x) ==
    IF x.e >= 0 THEN x
    ELSE LET m  == FMant(x)
             q  == LShr(m, -x.e)
             up == LBit(m, -x.e) = 1
         IN  FRound(x.s, IF up THEN LAdd(q, <<1>>) ELSE q, 0, FALSE)

-----------------------------------------------------------------------------
(* Text: form fields are strings, converted as int() and float() do.       *)

Digits == "0123456789"

\* the value of the one-character string c as a digit, or -1
DigitVal(c) ==
    IF \E d \in 1..10 : SubSeq(Digits, d, d) = c
    THEN (CHOOSE d \in 1..10 : SubSeq(Digits, d, d) = c) - 1
    ELSE -1

Char(s, i) == SubSeq(s, i, i)

\* Scan the digits of s from position i: [ok, n, k, dot] with n the digits
\* read as one integer, k the number of digits after the point.
RECURSIVE ScanDec(_, _, _, _, _, _)
ScanDec(s, i, n, k, dot, any) ==
    IF i > Len(s) THEN [ok |-> any, n |-> n, k |-> k, dot |-> dot]
    ELSE IF Char(s, i) = "." /\ ~dot THEN ScanDec(s, i + 1, n, k, TRUE, any)
    ELSE IF DigitVal(Char(s, i)) < 0
    THEN [ok |-> FALSE, n |-> 0, k |-> 0, dot |-> dot]
    ELSE ScanDec(s, i + 1, 10 * n + DigitVal(Char(s, i)),
                 IF dot THEN k + 1 ELSE k, dot, TRUE)

IsNeg(s) == Len(s) >= 1 /\ Char(s, 1) = "-"

ScanSigned(s) == ScanDec(s, IF IsNeg(s) THEN 2 ELSE 1, 0, 0, FALSE, FALSE)

\* float(s): [ok |-> TRUE, v |-> the double] or a ValueError
ParseFloat(s) ==
    IF s = "nan" THEN [ok |-> TRUE, v |-> NaN, err |-> ""]
    ELSE LET d == ScanSigned(s)
         IN  IF d.ok
             THEN [ok |-> TRUE, v |-> FFromDec(IsNeg(s), d.n, d.k), err |-> ""]
             ELSE [ok |-> FALSE, v |-> NaN,
                   err |-> "could not convert string to float: '" \o s \o "'"]

\* int(s): digits only, a decimal point is a ValueError
ParseInt(s) ==
    LET d == ScanSigned(s)
    IN  IF d.ok /\ ~d.dot
        THEN [ok |-> TRUE, v |-> IF IsNeg(s) THEN -d.n ELSE d.n, err |-> ""]
        ELSE [ok |-> FALSE, v |-> 0,
              err |-> "invalid literal for int() with base 10: '" \o s \o "'"]

Lower == "abcdefghijklmnopqrstuvwxyz"
Upper == "ABCDEFGHIJKLMNOPQRSTUVWXYZ"

UpperChar(c) ==
    IF \E i \in 1..26 : Char(Lower, i) = c
    THEN Char(Upper, CHOOSE i \in 1..26 : Char(Lower, i) = c)
    ELSE c

\* str.upper()
RECURSIVE StrUpper(_)
StrUpper(s) ==
    IF s = "" THEN ""
    ELSE UpperChar(Char(s, 1)) \o StrUpper(SubSeq(s, 2, Len(s)))

\* sub in s
Contains(sub, s) ==
    \E i \in 1..(Len(s) - Len(sub) + 1) : SubSeq(s, i, i + Len(sub) - 1) = sub

-----------------------------------------------------------------------------
(* Requests the model enumerates *)

EmptyDict == [x \in {} |-> TRUE]

Restrict(f, keys) == [k \in keys |-> f[k]]

\* Forms a client may post to /physical/predictor
PhysGood ==
    [sensor_id : {"7"}, location : {"1", "2"},
     voltage : {"230", "245.1", "300"}, current : {"5"}, power : {"1"},
     frequency : {"50"}, power_factor : {"0.9"}]

PhysBad ==
    {[f EXCEPT !.voltage = "abc"] : f \in {g \in PhysGood : g.voltage = "300"}}
    \cup {[f EXCEPT !.sensor_id = "7.5"] :
            f \in {g \in PhysGood : g.voltage = "230" /\ g.location = "1"}}
    \cup {Restrict(f, DOMAIN f \ {"power_factor"}) :
            f \in {g \in PhysGood : g.voltage = "245.1" /\ g.location = "1"}}

PhysForms == PhysGood \cup PhysBad

\* Forms a client may post to /cyber/predictor
CyberGood ==
    [source_ip : {"10.0.0.5", "10.0.0.666"}, dest_ip : {"10.0.0.1"},
     protocol : {"udp", "TCP"}, packet_length : {"100", "900.4", "1501"}]

CyberBad ==
    {[f EXCEPT !.packet_length = "big"] :
        f \in {g \in CyberGood : g.packet_length = "1501"
                                  /\ g.source_ip = "10.0.0.666"}}
    \cup {Restrict(f, DOMAIN f \ {"protocol"}) :
            f \in {g \in CyberGood : g.packet_length = "900.4"
                                      /\ g.source_ip = "10.0.0.5"}}

CyberForms == CyberGood \cup CyberBad

\* the narrower choice used where two requests run side by side
PhysFew ==
    {f \in PhysForms : "location" \in DOMAIN f /\ f["location"] = "1"
                       /\ f["voltage"] \in {"230", "abc"}}
CyberFew ==
    {f \in CyberForms : "protocol" \in DOMAIN f /\ f["protocol"] = "TCP"
                        /\ f["source_ip"] = "10.0.0.5"
                        /\ f["packet_length"] \in {"900.4", "big"}}

\* readings given to the rule engine taken alone
ProbeVoltages == {"209.79", "209.7", "210", "230", "245", "245.1", "245.245",
                  "245.3", "300", "-230", "nan"}
ProbeCurrents == {"2.4975", "2.5", "5", "7.5075", "7.6"}
ProbePowers == {"0.4995", "1", "1.8", "1.8018", "2"}

FieldTexts ==
    UNION {{f[k] : k \in DOMAIN f} : f \in PhysForms \cup CyberForms}
    \cup ProbeVoltages \cup ProbeCurrents \cup ProbePowers

\* float() and int() of every text above, computed once
FloatOf == [s \in FieldTexts |-> ParseFloat(s)] @@ EmptyDict
IntOf == [s \in FieldTexts |-> ParseInt(s)] @@ EmptyDict

-----------------------------------------------------------------------------
(* State *)

VARIABLES
    DATABASE_URL,   \* TRUE: the environment names a PostgreSQL server;
                    \* FALSE: the handlers use the local SQLite file
    models,         \* the registry: models.phys and models.cyber, each a
                    \* dict (a function on the keys that were loaded)
    predictions,    \* committed rows of table predictions
    cyber_logs,     \* committed rows of table cyber_logs
    ids,            \* per table, the last id the store's generator gave out
    req,            \* per worker, the request it is handling
    started,        \* number of requests begun so far
    probe           \* a reading, the tier computed for it and the tier
                    \* computed for it again (rule engine taken alone)

vars == <<DATABASE_URL, models, predictions, cyber_logs, ids, req, started,
          probe>>

Workers == {"w1", "w2"}

\* requests begun in one run: with two workers, and with one
MaxRequests == 2
MaxSeqRequests == 1

LIMIT == 10

-----------------------------------------------------------------------------
(* Rule engine, physical: lines 155-177 *)

V_MIN == ParseFloat("210").v
V_MAX == ParseFloat("245").v
I_MIN == ParseFloat("2.5").v
I_MAX == ParseFloat("7.5").v
P_MIN == ParseFloat("0.5").v
P_MAX == ParseFloat("1.8").v
BUFFER_PCT == ParseFloat("0.001").v

FOne == FFromNat(1)

\* 1 - BUFFER_PCT and 1 + BUFFER_PCT, each rounded once
LowFactor == FSub(FOne, BUFFER_PCT)
HighFactor == FAdd(FOne, BUFFER_PCT)

V_LOW == FMul(V_MIN, LowFactor)
V_HIGH == FMul(V_MAX, HighFactor)
I_LOW == FMul(I_MIN, LowFactor)
I_HIGH == FMul(I_MAX, HighFactor)
P_LOW == FMul(P_MIN, LowFactor)
P_HIGH == FMul(P_MAX, HighFactor)

Between(lo, x, hi) == FLeq(lo, x) /\ FLeq(x, hi)

is_normal(vol, cur, pow) ==
    /\ Between(V_MIN, vol, V_MAX)
    /\ Between(I_MIN, cur, I_MAX)
    /\ Between(P_MIN, pow, P_MAX)

in_moderate_zone(vol, cur, pow) ==
    /\ Between(V_LOW, vol, V_HIGH)
    /\ Between(I_LOW, cur, I_HIGH)
    /\ Between(P_LOW, pow, P_HIGH)

NORMAL == "NORMAL (Safe Range)"
MODERATE == "MODERATE ALERT"
CRITICAL == "CRITICAL ALERT"
ANOMALY_ML == "ANOMALY DETECTED (ML)"

RuleTier(vol, cur, pow) ==
    IF is_normal(vol, cur, pow) THEN NORMAL
    ELSE IF in_moderate_zone(vol, cur, pow) THEN MODERATE
    ELSE CRITICAL

UnknownZone(loc) == "Unknown Zone " \o ToString(loc) \o " (No Model)"

-----------------------------------------------------------------------------
(* physical_predictor, the body of its try block up to the INSERT:         *)
(* lines 144-193                                                           *)

PhysFields ==
    <<"sensor_id", "location", "voltage", "current", "power", "frequency",
      "power_factor">>

BadRequestKey ==
    "400 Bad Request: The browser (or proxy) sent a request that this server could not understand."

\* how each field is converted
PhysKinds == <<"int", "int", "float", "float", "float", "float", "float">>

\* the message of the exception form[f] / int() / float() raises, "" if none
FieldErr(form, f, kind) ==
    IF f \notin DOMAIN form THEN BadRequestKey
    ELSE IF kind = "int" THEN IntOf[form[f]].err
    ELSE IF kind = "float" THEN FloatOf[form[f]].err
    ELSE ""

MinOf(S) == CHOOSE i \in S : \A j \in S : i <= j

FirstErrAt(form, fields, kinds, bad) ==
    IF bad = {} THEN ""
    ELSE FieldErr(form, fields[MinOf(bad)], kinds[MinOf(bad)])

\* the first field, in the order the handler converts them, that raises
FirstErr(form, fields, kinds) ==
    FirstErrAt(form, fields, kinds,
               {i \in 1..Len(fields) :
                    FieldErr(form, fields[i], kinds[i]) # ""})

\* variant: the zone test of line 154 left out
ZoneKnownAny(loc) == TRUE

ZoneKnown(loc) ==
    /\ "zone_models" \in DOMAIN models.phys
    /\ loc \in models.phys["zone_models"]

NoVals == [sensor_id |-> 0, location |-> 0, voltage |-> NaN, current |-> NaN,
           power |-> NaN]

\* What the external calls of one request do: o.scaler and o.predict say
\* whether transform() and predict() raise, o.pred is the label predicted,
\* o.encoder whether an encoder meets a category it was not fitted on.
Oracles ==
    [scaler : BOOLEAN, predict : BOOLEAN, pred : {-1, 0, 1}, encoder : BOOLEAN]

\* lines 180-189: [raised, err, status, consulted, fault]
PhysInfer(loc, o) ==
    IF "zone_scalers" \notin DOMAIN models.phys
    THEN [raised |-> TRUE, err |-> "'zone_scalers'", status |-> NORMAL,
          consulted |-> FALSE, fault |-> {"no scaler"}]
    ELSE IF loc \notin models.phys["zone_scalers"]
    THEN [raised |-> TRUE, err |-> ToString(loc), status |-> NORMAL,
          consulted |-> FALSE, fault |-> {"no scaler"}]
    ELSE IF o.scaler
    THEN [raised |-> TRUE, err |-> "transform failed", status |-> NORMAL,
          consulted |-> TRUE, fault |-> {"transform"}]
    ELSE IF o.predict
    THEN [raised |-> TRUE, err |-> "predict failed", status |-> NORMAL,
          consulted |-> TRUE, fault |-> {"predict"}]
    ELSE [raised |-> FALSE, err |-> "",
          status |-> IF o.pred = -1 THEN ANOMALY_ML ELSE NORMAL,
          consulted |-> TRUE, fault |-> {}]

\* what the try block leaves behind
Outcome(raised, err, status, tier, consulted, fault, vals) ==
    [raised |-> raised, err |-> err, status |-> status, tier |-> tier,
     consulted |-> consulted, fault |-> fault, vals |-> vals]

\* lines 144-148
PhysVals(form) ==
    [sensor_id |-> IntOf[form["sensor_id"]].v,
     location |-> IntOf[form["location"]].v,
     voltage |-> FloatOf[form["voltage"]].v,
     current |-> FloatOf[form["current"]].v,
     power |-> FloatOf[form["power"]].v]

PhysInferred(inf, tier, vals) ==
    Outcome(inf.raised, inf.err, inf.status, tier, inf.consulted, inf.fault,
            vals)

\* variant: the test of line 179 left out, every tier goes on to the detector
PhysDecideInferAlways(vals, tier, o) ==
    IF ZoneKnown(vals.location)
    THEN PhysInferred(PhysInfer(vals.location, o), tier, vals)
    ELSE Outcome(FALSE, "", UnknownZone(vals.location), "", FALSE, {}, vals)

\* lines 152-191, the rule tier being the status of lines 172-177
PhysDecide(vals, tier, o) ==
    IF ZoneKnown(vals.location)
    THEN IF tier = NORMAL
         THEN PhysInferred(PhysInfer(vals.location, o), tier, vals)
         ELSE Outcome(FALSE, "", tier, tier, FALSE, {}, vals)
    ELSE Outcome(FALSE, "", UnknownZone(vals.location), "", FALSE, {}, vals)

PhysParsed(vals, o) ==
    PhysDecide(vals, RuleTier(vals.voltage, vals.current, vals.power), o)

PhysChecked(err, form, o) ==
    IF err # "" THEN Outcome(TRUE, err, "", "", FALSE, {}, NoVals)
    ELSE PhysParsed(PhysVals(form), o)

PhysTry(form, o) ==
    PhysChecked(FirstErr(form, PhysFields, PhysKinds), form, o)

-----------------------------------------------------------------------------
(* cyber_predictor, the body of its try block up to the INSERT:            *)
(* lines 242-289                                                           *)

CyberFields == <<"source_ip", "dest_ip", "protocol", "packet_length">>

CyberKinds == <<"str", "str", "str", "float">>

SAFE == "SAFE TRAFFIC"
OVERSIZED == "MALICIOUS (Oversized Packet)"
BLACKLISTED == "BLACKLISTED IP DETECTED"
DDOS == "POSSIBLE DDOS (UDP Flood)"
ANOMALY_HYBRID == "ANOMALY DETECTED (Hybrid AI)"

Len1500 == ParseFloat("1500").v
Len800 == ParseFloat("800").v

CategoricalCols == {"Source_IP", "Destination_IP", "Protocol", "Attack_Type"}

\* line 255: "rf" in models["cyber"] and models["cyber"]["rf"]
HybridLoaded == "rf" \in DOMAIN models.cyber /\ models.cyber["rf"]

\* line 272: models["cyber"].get("encoders", {})
Encoders ==
    IF "encoders" \in DOMAIN models.cyber THEN models.cyber["encoders"] ELSE {}

\* lines 256-287, inside the inner try: [status, consulted, fault]
EncoderFaults(o) ==
    (IF o.encoder /\ Encoders # {} THEN {"encoder"} ELSE {})
    \cup (IF Encoders # CategoricalCols THEN {"no encoder"} ELSE {})

\* variant: the inner try of lines 256-287 left out, a failing call shows
CyberInferUncaught(o) ==
    IF "scaler" \notin DOMAIN models.cyber
    THEN [status |-> SAFE, consulted |-> FALSE,
          fault |-> EncoderFaults(o) \cup {"no scaler"}]
    ELSE IF o.scaler \/ o.predict \/ EncoderFaults(o) # {}
    THEN [status |-> "Error: inference failed", consulted |-> TRUE,
          fault |-> EncoderFaults(o) \cup {"transform"}]
    ELSE [status |-> IF o.pred = 1 THEN ANOMALY_HYBRID ELSE SAFE,
          consulted |-> TRUE, fault |-> EncoderFaults(o)]

CyberInfer(o) ==
    IF "scaler" \notin DOMAIN models.cyber
    THEN [status |-> SAFE, consulted |-> FALSE,
          fault |-> EncoderFaults(o) \cup {"no scaler"}]
    ELSE IF o.scaler
    THEN [status |-> SAFE, consulted |-> TRUE,
          fault |-> EncoderFaults(o) \cup {"transform"}]
    ELSE IF o.predict
    THEN [status |-> SAFE, consulted |-> TRUE,
          fault |-> EncoderFaults(o) \cup {"predict"}]
    ELSE [status |-> IF o.pred = 1 THEN ANOMALY_HYBRID ELSE SAFE,
          consulted |-> TRUE, fault |-> EncoderFaults(o)]

NoPacket == [source_ip |-> "", dest_ip |-> "", protocol |-> "",
             packet_len |-> NaN]

\* lines 242-245
CyberVals(form) ==
    [source_ip |-> form["source_ip"], dest_ip |-> form["dest_ip"],
     protocol |-> form["protocol"],
     packet_len |-> FloatOf[form["packet_length"]].v]

\* variant: the blacklist test of line 251 placed before the size test
CyberRuleBlacklistFirst(vals) ==
    IF Contains("666", vals.source_ip) THEN BLACKLISTED
    ELSE IF FLess(Len1500, vals.packet_len) THEN OVERSIZED
    ELSE IF StrUpper(vals.protocol) = "UDP" /\ FLess(Len800, vals.packet_len)
    THEN DDOS
    ELSE ""

\* lines 249-254: the heuristic that matches first, "" if none does
CyberRule(vals) ==
    IF FLess(Len1500, vals.packet_len) THEN OVERSIZED
    ELSE IF Contains("666", vals.source_ip) THEN BLACKLISTED
    ELSE IF StrUpper(vals.protocol) = "UDP" /\ FLess(Len800, vals.packet_len)
    THEN DDOS
    ELSE ""

CyberInferred(inf, vals) ==
    Outcome(FALSE, "", inf.status, "", inf.consulted, inf.fault, vals)

\* lines 247-287
CyberDecide(vals, rule, o) ==
    IF rule # "" THEN Outcome(FALSE, "", rule, "", FALSE, {}, vals)
    ELSE IF HybridLoaded THEN CyberInferred(CyberInfer(o), vals)
    ELSE Outcome(FALSE, "", SAFE, "", FALSE, {}, vals)

CyberParsed(vals, o) == CyberDecide(vals, CyberRule(vals), o)

CyberChecked(err, form, o) ==
    IF err # "" THEN Outcome(TRUE, err, "", "", FALSE, {}, NoPacket)
    ELSE CyberParsed(CyberVals(form), o)

CyberTry(form, o) ==
    CyberChecked(FirstErr(form, CyberFields, CyberKinds), form, o)

-----------------------------------------------------------------------------
(* The store: lines 72-96 (schema), 195-202, 206-207, 291-298, 302-303     *)

NULL == [k |-> "null", s |-> 1, hi |-> 0, lo |-> 0, e |-> 0]

\* A Python float bound to a REAL column.  SQLite keeps the double but
\* stores NaN as NULL.  PostgreSQL's REAL is float4, which hands back
\* unchanged any value written with at most six significant digits: every
\* value the model enumerates is such a value.
StoreReal(x) == IF ~DATABASE_URL /\ x.k = "nan" THEN NULL ELSE x

\* A Python float bound to the INTEGER column packet_len (line 91).
\* SQLite's integer affinity keeps the number (NaN becomes NULL);
\* PostgreSQL casts the literal to int4, rounding to the nearest integer.
StoreInt(x) ==
    IF x.k = "nan" THEN NULL
    ELSE IF DATABASE_URL THEN FRoundToInt(x) ELSE x

\* PostgreSQL refuses NaN for an integer column
StoreAccepts(domain, vals) ==
    domain = "cyber" /\ DATABASE_URL => vals.packet_len.k # "nan"

PhysRow(id, vals, status) ==
    [id |-> id, sensor_id |-> vals.sensor_id, location |-> vals.location,
     voltage |-> StoreReal(vals.voltage), current |-> StoreReal(vals.current),
     power |-> StoreReal(vals.power), prediction_result |-> status]

CyberRow(id, vals, status) ==
    [id |-> id, source_ip |-> vals.source_ip, dest_ip |-> vals.dest_ip,
     protocol |-> vals.protocol, packet_len |-> StoreInt(vals.packet_len),
     prediction_result |-> status]

MakeRow(domain, id, vals, status) ==
    IF domain = "phys" THEN PhysRow(id, vals, status)
    ELSE CyberRow(id, vals, status)

Table(domain) == IF domain = "phys" THEN predictions ELSE cyber_logs

\* ORDER BY id DESC LIMIT n
RECURSIVE OrderDescLimit(_, _)
OrderDescLimit(rows, n) ==
    IF rows = {} \/ n = 0 THEN <<>>
    ELSE LET top == CHOOSE r \in rows : \A q \in rows : q.id <= r.id
         IN  <<top>> \o OrderDescLimit(rows \ {top}, n - 1)

\* the status shown when the INSERT or the commit raised
StoreErrors ==
    {"Error: insert failed", "Error: commit failed",
     "Error: database is locked"}

\* SQLite locks the whole file: one connection at a time may hold
\* uncommitted writes, whatever the table
WriteLockFree(w) ==
    DATABASE_URL \/ \A u \in Workers \ {w} : req[u].pending = {}

-----------------------------------------------------------------------------
(* Requests *)

Idle ==
    [pc |-> "idle", domain |-> "", method |-> "", form |-> EmptyDict,
     status |-> "", result |-> "None", vals |-> NoVals, tier |-> "",
     consulted |-> FALSE, fault |-> {}, pending |-> {}, txn |-> "none",
     history |-> <<>>, http |-> 0, wrote |-> {}]

Methods == {"GET", "POST"}

\* A request arrives; get_db() opens its own connection (lines 138-140,
\* 236-238).
Begin(w, domain, forms, limit) ==
    /\ req[w].pc = "idle"
    /\ started < limit
    /\ \E method \in Methods :
       \E form \in (IF method = "POST" THEN forms ELSE {EmptyDict}) :
          req' = [req EXCEPT ![w] =
                     [Idle EXCEPT !.pc = IF method = "POST" THEN "try"
                                         ELSE "query",
                                  !.domain = domain,
                                  !.method = method,
                                  !.form = form]]
    /\ started' = started + 1
    /\ UNCHANGED <<DATABASE_URL, models, predictions, cyber_logs, ids, probe>>

Try(domain, form, o) ==
    IF domain = "phys" THEN PhysTry(form, o) ELSE CyberTry(form, o)

\* variant: an exception of the conversions does not skip the INSERT
AfterTryNoSkip(q, r) ==
    [q EXCEPT !.pc = "insert",
              !.status = r.status,
              !.result = IF r.raised THEN "Error: " \o r.err ELSE r.status,
              !.vals = r.vals,
              !.tier = r.tier,
              !.consulted = r.consulted,
              !.fault = r.fault]

\* the handler's locals after the try block stopped at r: an exception
\* goes to the handler of line 203 / 299
AfterTry(q, r) ==
    [q EXCEPT !.pc = IF r.raised THEN "query" ELSE "insert",
              !.status = r.status,
              !.result = IF r.raised THEN "Error: " \o r.err ELSE r.status,
              !.vals = r.vals,
              !.tier = r.tier,
              !.consulted = r.consulted,
              !.fault = r.fault]

\* The try block up to the INSERT (lines 143-193 and 241-289)
Classify(w) ==
    /\ req[w].pc = "try"
    /\ \E o \in Oracles :
          req' = [req EXCEPT
                    ![w] = AfterTry(req[w],
                                    Try(req[w].domain, req[w].form, o))]
    /\ UNCHANGED <<DATABASE_URL, models, predictions, cyber_logs, ids,
                   started, probe>>

\* variant: the generator hands out the last id again once it has run
NextIdStuck(domain) == IF ids[domain] = 0 THEN 1 ELSE ids[domain]

NextId(domain) == ids[domain] + 1

\* cursor.execute(INSERT ...) succeeds: the row is written in the
\* connection's open transaction and has its id.  PostgreSQL's SERIAL draws
\* the id from a sequence that is advanced at once; SQLite's AUTOINCREMENT
\* counter is part of the transaction.
InsertOk(w) ==
    /\ req[w].pc = "insert"
    /\ WriteLockFree(w)
    /\ StoreAccepts(req[w].domain, req[w].vals)
    /\ req' = [req EXCEPT ![w].pc = "commit",
                          ![w].txn = "open",
                          ![w].pending =
                              {MakeRow(req[w].domain, NextId(req[w].domain),
                                       req[w].vals, req[w].status)}]
    /\ ids' = IF DATABASE_URL
              THEN [ids EXCEPT ![req[w].domain] = NextId(req[w].domain)]
              ELSE ids
    /\ UNCHANGED <<DATABASE_URL, models, predictions, cyber_logs, started,
                   probe>>

\* cursor.execute(INSERT ...) raises (database is locked, a value the
\* column refuses, the server is gone).  PostgreSQL leaves the transaction
\* aborted.
InsertFail(w) ==
    /\ req[w].pc = "insert"
    /\ req' = [req EXCEPT ![w].pc = "query",
                          ![w].result = "Error: insert failed",
                          ![w].txn = IF DATABASE_URL THEN "aborted"
                                     ELSE "none"]
    /\ UNCHANGED <<DATABASE_URL, models, predictions, cyber_logs, ids,
                   started, probe>>

\* db.commit() succeeds
CommitOk(w) ==
    /\ req[w].pc = "commit"
    /\ predictions' = IF req[w].domain = "phys"
                      THEN predictions \cup req[w].pending ELSE predictions
    /\ cyber_logs' = IF req[w].domain = "cyber"
                     THEN cyber_logs \cup req[w].pending ELSE cyber_logs
    /\ ids' = IF DATABASE_URL THEN ids
              ELSE [ids EXCEPT ![req[w].domain] = NextId(req[w].domain)]
    /\ req' = [req EXCEPT ![w].pc = "query",
                          ![w].txn = "none",
                          ![w].pending = {},
                          ![w].wrote = req[w].pending]
    /\ UNCHANGED <<DATABASE_URL, models, started, probe>>

\* db.commit() raises and the transaction is gone (rolled back by the
\* store)
CommitFailRollback(w) ==
    /\ req[w].pc = "commit"
    /\ req' = [req EXCEPT ![w].pc = "query",
                          ![w].result = "Error: commit failed",
                          ![w].txn = "none",
                          ![w].pending = {}]
    /\ UNCHANGED <<DATABASE_URL, models, predictions, cyber_logs, ids,
                   started, probe>>

\* db.commit() raises "database is locked" (SQLite): the transaction stays
\* open with its row, and the handler of line 203 / 299 does not roll back
CommitFailBusy(w) ==
    /\ req[w].pc = "commit"
    /\ ~DATABASE_URL
    /\ req' = [req EXCEPT ![w].pc = "query",
                          ![w].result = "Error: database is locked"]
    /\ UNCHANGED <<DATABASE_URL, models, predictions, cyber_logs, ids,
                   started, probe>>

\* SELECT * ... ORDER BY id DESC LIMIT 10 and fetchall() (lines 206-208,
\* 302-304): the connection sees the committed rows and its own
QueryOk(w) ==
    /\ req[w].pc = "query"
    /\ req[w].txn # "aborted"
    /\ req' = [req EXCEPT ![w].pc = "done",
                          ![w].http = 200,
                          ![w].history =
                              OrderDescLimit(Table(req[w].domain)
                                               \cup req[w].pending, LIMIT)]
    /\ UNCHANGED <<DATABASE_URL, models, predictions, cyber_logs, ids,
                   started, probe>>

\* the SELECT raises; nothing catches it and the request ends in a 500
QueryFail(w) ==
    /\ req[w].pc = "query"
    /\ req' = [req EXCEPT ![w].pc = "done", ![w].http = 500]
    /\ UNCHANGED <<DATABASE_URL, models, predictions, cyber_logs, ids,
                   started, probe>>

\* close_connection (lines 62-66): closing drops what was not committed
Finish(w) ==
    /\ req[w].pc = "done"
    /\ req' = [req EXCEPT ![w] = Idle]
    /\ UNCHANGED <<DATABASE_URL, models, predictions, cyber_logs, ids,
                   started, probe>>

-----------------------------------------------------------------------------
(* Module load: lines 25-47.  Each joblib.load may raise, which leaves the *)
(* keys assigned before it.                                                *)

RegistryZones == {1}

PhysRegistries ==
    {EmptyDict}
    \cup {[zone_models |-> Z] : Z \in SUBSET RegistryZones}
    \cup {[zone_models |-> RegistryZones, zone_scalers |-> S] :
            S \in SUBSET RegistryZones}

CyberRegistries ==
    {EmptyDict, [rf |-> TRUE]}
    \cup {[rf |-> TRUE, scaler |-> TRUE, encoders |-> E] :
            E \in {{}, {"Protocol"}, CategoricalCols}}

NoProbe == [vol |-> "", cur |-> "", pow |-> "", tier |-> "", again |-> ""]

InitStore ==
    /\ DATABASE_URL \in BOOLEAN
    /\ predictions = {}
    /\ cyber_logs = {}
    /\ ids = [phys |-> 0, cyber |-> 0]
    /\ req = [w \in Workers |-> Idle]
    /\ started = 0
    /\ probe = NoProbe

\* one request at a time, every registry
InitSeq ==
    /\ InitStore
    /\ models \in [phys : PhysRegistries, cyber : CyberRegistries]

\* two workers
Init ==
    /\ InitStore
    /\ models \in [phys : {[zone_models |-> RegistryZones,
                            zone_scalers |-> RegistryZones]},
                   cyber : {EmptyDict}]

Step(w) ==
    \/ Classify(w)
    \/ InsertOk(w)
    \/ InsertFail(w)
    \/ CommitOk(w)
    \/ CommitFailRollback(w)
    \/ CommitFailBusy(w)
    \/ QueryOk(w)
    \/ QueryFail(w)
    \/ Finish(w)

NextSeq ==
    \/ Begin("w1", "phys", PhysForms, MaxSeqRequests)
    \/ Begin("w1", "cyber", CyberForms, MaxSeqRequests)
    \/ Step("w1")

Next ==
    \E w \in Workers :
        \/ Begin(w, "phys", PhysFew, MaxRequests)
        \/ Begin(w, "cyber", CyberFew, MaxRequests)
        \/ Step(w)

SpecSeq == InitSeq /\ [][NextSeq]_vars

-----------------------------------------------------------------------------
(* The rule engine of lines 155-177 taken alone: a reading is classified,  *)
(* then classified once more.                                              *)

ProbeTier(vol, cur, pow) ==
    RuleTier(FloatOf[vol].v, FloatOf[cur].v, FloatOf[pow].v)

Measure ==
    /\ probe = NoProbe
    /\ \E vol \in ProbeVoltages, cur \in ProbeCurrents, pow \in ProbePowers :
          probe' = [vol |-> vol, cur |-> cur, pow |-> pow,
                    tier |-> ProbeTier(vol, cur, pow), again |-> ""]
    /\ UNCHANGED <<DATABASE_URL, models, predictions, cyber_logs, ids, req,
                   started>>

MeasureAgain ==
    /\ probe # NoProbe
    /\ probe.again = ""
    /\ probe' = [probe EXCEPT
                   !.again = ProbeTier(probe.vol, probe.cur, probe.pow)]
    /\ UNCHANGED <<DATABASE_URL, models, predictions, cyber_logs, ids, req,
                   started>>

NextTier == Measure \/ MeasureAgain

SpecTier == Init /\ [][NextTier]_vars

Spec == Init /\ [][Next]_vars

-----------------------------------------------------------------------------
(* Vocabulary of the properties *)

\* the decimal text of a number in units of 10^-4, exactly
IsNumber(text) == text # "nan" /\ ScanSigned(text).ok

Units(text) ==
    (IF IsNeg(text) THEN -1 ELSE 1)
        * ScanSigned(text).n * Pow10(4 - ScanSigned(text).k)

Exceeds(text, n) == IsNumber(text) /\ Units(text) > n * Pow10(4)

Within(text, lo, hi) ==
    IsNumber(text) /\ lo <= Units(text) /\ Units(text) <= hi

\* bound * (1 - 1/1000) and bound * (1 + 1/1000), exactly
WideLow(bound) == (Units(bound) \div 1000) * (1000 - 1)
WideHigh(bound) == (Units(bound) \div 1000) * (1000 + 1)

\* the tier of a reading by the decimal values typed
ExactTier(vol, cur, pow) ==
    IF /\ Within(vol, Units("210"), Units("245"))
       /\ Within(cur, Units("2.5"), Units("7.5"))
       /\ Within(pow, Units("0.5"), Units("1.8"))
    THEN NORMAL
    ELSE IF /\ Within(vol, WideLow("210"), WideHigh("245"))
            /\ Within(cur, WideLow("2.5"), WideHigh("7.5"))
            /\ Within(pow, WideLow("0.5"), WideHigh("1.8"))
    THEN MODERATE
    ELSE CRITICAL

PhysWellFormed(form) ==
    /\ \A i \in 1..Len(PhysFields) : PhysFields[i] \in DOMAIN form
    /\ IntOf[form["sensor_id"]].ok
    /\ IntOf[form["location"]].ok
    /\ \A f \in {"voltage", "current", "power", "frequency", "power_factor"} :
          FloatOf[form[f]].ok

CyberWellFormed(form) ==
    /\ \A i \in 1..Len(CyberFields) : CyberFields[i] \in DOMAIN form
    /\ FloatOf[form["packet_length"]].ok

WellFormed(domain, form) ==
    IF domain = "phys" THEN PhysWellFormed(form) ELSE CyberWellFormed(form)

Posted(w, domain) == req[w].domain = domain /\ req[w].method = "POST"

\* the verdict is fixed and the INSERT has not failed
Decided(w) == req[w].pc \in {"insert", "commit"}

\* the try block is over
Ended(w) == req[w].pc \in {"query", "done"}

\* the try block ran to its end: the event was inserted and committed
Stored(w) == Ended(w) /\ req[w].result = req[w].status

IsError(text) == Len(text) > 7 /\ SubSeq(text, 1, 7) = "Error: "

\* the request appended exactly one event, with this verdict
OneEvent(w, verdict) ==
    \E r \in Table(req[w].domain) :
        req[w].wrote = {r} /\ r.prediction_result = verdict

FormTier(form) == ProbeTier(form["voltage"], form["current"], form["power"])

FormZone(form) == IntOf[form["location"]].v

HasDetector(zone) ==
    "zone_models" \in DOMAIN models.phys
        /\ zone \in models.phys["zone_models"]

Min(a, b) == IF a <= b THEN a ELSE b

-----------------------------------------------------------------------------
(* C1 *)

\* C1: for every well-formed packet and every registry, the verdict is that
\* of the first rule that matches, in the order oversized (packet_length >
\* 1500), blacklisted (source_ip contains "666"), UDP flood (protocol is UDP
\* in any case and packet_length > 800); when a rule matches the hybrid model
\* is not consulted; when none matches and no hybrid model is loaded the
\* verdict is SAFE.
C1_RulePriority ==
    \A w \in Workers :
        Posted(w, "cyber") /\ CyberWellFormed(req[w].form) /\ Decided(w) =>
            LET f     == req[w].form
                big   == Exceeds(f["packet_length"], 1500)
                black == Contains("666", f["source_ip"])
                flood == StrUpper(f["protocol"]) = "UDP"
                           /\ Exceeds(f["packet_length"], 800)
            IN  /\ req[w].result = req[w].status
                /\ big => req[w].status = OVERSIZED
                /\ ~big /\ black => req[w].status = BLACKLISTED
                /\ ~big /\ ~black /\ flood => req[w].status = DDOS
                /\ big \/ black \/ flood =>
                       ~req[w].consulted /\ req[w].fault = {}
                /\ ~(big \/ black \/ flood) /\ ~HybridLoaded =>
                       req[w].status = SAFE /\ ~req[w].consulted

\* an oversized UDP packet from a blacklisted address, with the whole hybrid
\* system loaded, is reported as oversized and the model is left alone
C1_OversizedWins ==
    \E w \in Workers :
        /\ Posted(w, "cyber") /\ Decided(w)
        /\ req[w].form["packet_length"] = "1501"
        /\ req[w].form["source_ip"] = "10.0.0.666"
        /\ req[w].form["protocol"] = "udp"
        /\ HybridLoaded /\ "scaler" \in DOMAIN models.cyber
        /\ req[w].status = OVERSIZED
        /\ ~req[w].consulted

-----------------------------------------------------------------------------
(* C2 *)

\* C2: for every reading the rule tier is NORMAL when voltage, current and
\* power are each within [min, max]; MODERATE when not, but each is within
\* [min * (1 - 0.001), max * (1 + 0.001)], the widened boundary included;
\* CRITICAL otherwise; and classifying the same reading again gives the same
\* tier.
C2_Tiering ==
    probe # NoProbe =>
        /\ probe.tier = ExactTier(probe.vol, probe.cur, probe.pow)
        /\ probe.again # "" => probe.again = probe.tier

\* a reading whose voltage is the widened upper boundary 245 * 1.001, with
\* current and power in range, is classified CRITICAL
C2_BoundaryIsCritical ==
    /\ probe.vol = "245.245" /\ probe.cur = "5" /\ probe.pow = "1"
    /\ ExactTier(probe.vol, probe.cur, probe.pow) = MODERATE
    /\ probe.tier = CRITICAL
    /\ probe.again = CRITICAL

-----------------------------------------------------------------------------
(* C3 *)

\* the verdict of the request of w is the rule tier of its reading, without
\* the detector, and that tier is what it stores
TierTerminal(w) ==
    /\ Decided(w) =>
          /\ req[w].status = FormTier(req[w].form)
          /\ req[w].result = FormTier(req[w].form)
          /\ ~req[w].consulted
          /\ req[w].fault = {}
    /\ Ended(w) =>
          req[w].result = FormTier(req[w].form) \/ req[w].result \in StoreErrors
    /\ Stored(w) => OneEvent(w, FormTier(req[w].form))

\* C3 as amended: for every well-formed reading whose zone has a detector in
\* the registry and whose rule tier is MODERATE or CRITICAL, the verdict
\* returned and stored is exactly that tier, whatever else the registry
\* holds (scalers or not, cyber models or not); the detector is not
\* consulted and nothing fails for a missing scaler.
C3_TierTerminalInKnownZone ==
    \A w \in Workers :
        /\ Posted(w, "phys") /\ PhysWellFormed(req[w].form)
        /\ HasDetector(FormZone(req[w].form))
        /\ FormTier(req[w].form) \in {MODERATE, CRITICAL}
        => TierTerminal(w)

\* C3 as written: for every well-formed reading whose rule tier is MODERATE
\* or CRITICAL, the verdict returned and stored is exactly that tier,
\* whatever the registry contains, no model for the zone included.
C3_TierTerminalAnyRegistry ==
    \A w \in Workers :
        /\ Posted(w, "phys") /\ PhysWellFormed(req[w].form)
        /\ FormTier(req[w].form) \in {MODERATE, CRITICAL}
        => TierTerminal(w)

\* a 300 V reading of a zone whose detector loaded and whose scaler did not
\* ends stored as CRITICAL
C3_CriticalWithoutScaler ==
    \E w \in Workers :
        /\ Posted(w, "phys") /\ req[w].pc = "done"
        /\ req[w].form["voltage"] = "300"
        /\ HasDetector(FormZone(req[w].form))
        /\ "zone_scalers" \notin DOMAIN models.phys
        /\ req[w].result = CRITICAL
        /\ OneEvent(w, CRITICAL)

-----------------------------------------------------------------------------
(* C4 *)

\* C4: for every well-formed physical reading whose zone has no entry in
\* the registry, whatever its voltage, current and power, the verdict is the
\* unknown-zone verdict carrying the zone id, and the request (its INSERT
\* and commit succeeding) appends exactly one event with that verdict to the
\* physical log.
C4_UnknownZone ==
    \A w \in Workers :
        /\ Posted(w, "phys") /\ PhysWellFormed(req[w].form)
        /\ ~HasDetector(FormZone(req[w].form))
        => LET verdict == "Unknown Zone " \o ToString(FormZone(req[w].form))
                             \o " (No Model)"
           IN  /\ Decided(w) =>
                     /\ req[w].status = verdict
                     /\ req[w].result = verdict
                     /\ ~req[w].consulted
               /\ Ended(w) =>
                     req[w].result = verdict \/ req[w].result \in StoreErrors
               /\ Stored(w) =>
                     /\ OneEvent(w, verdict)
                     /\ \A r \in req[w].wrote :
                           r.location = FormZone(req[w].form)

\* a 300 V reading of zone 2, which the registry does not know, ends stored
\* as "Unknown Zone 2 (No Model)"
C4_UnknownZoneLogged ==
    \E w \in Workers :
        /\ Posted(w, "phys") /\ req[w].pc = "done"
        /\ req[w].form["location"] = "2"
        /\ req[w].form["voltage"] = "300"
        /\ "zone_models" \in DOMAIN models.phys
        /\ req[w].result = "Unknown Zone 2 (No Model)"
        /\ OneEvent(w, "Unknown Zone 2 (No Model)")

-----------------------------------------------------------------------------
(* C5 *)

\* C5: for every well-formed packet that matches no rule, when an encoder is
\* missing or fails on an unseen category, the scaler is missing, or the
\* scaler or the classifier raises, the request still returns a cyber
\* verdict (SAFE unless the classifier ran and predicted 1) and, its INSERT
\* and commit succeeding, appends exactly one event with that verdict to the
\* cyber log.
C5_ModelFailureAbsorbed ==
    \A w \in Workers :
        Posted(w, "cyber") /\ req[w].fault # {} =>
            /\ Decided(w) \/ Ended(w) =>
                  req[w].status \in {SAFE, ANOMALY_HYBRID}
            /\ Decided(w) =>
                  /\ req[w].result = req[w].status
                  /\ req[w].fault \cap {"no scaler", "transform", "predict"}
                         # {} => req[w].status = SAFE
            /\ Ended(w) =>
                  req[w].result = req[w].status
                      \/ req[w].result \in StoreErrors
            /\ Stored(w) => OneEvent(w, req[w].status)

\* an encoder met an unseen category and the classifier raised: the packet
\* ends stored as SAFE
C5_FailureLoggedSafe ==
    \E w \in Workers :
        /\ Posted(w, "cyber") /\ req[w].pc = "done"
        /\ {"encoder", "predict"} \subseteq req[w].fault
        /\ req[w].result = SAFE
        /\ OneEvent(w, SAFE)

-----------------------------------------------------------------------------
(* C6 *)

\* C6: for every well-formed reading whose rule tier is NORMAL and whose
\* zone has a detector, when the zone's scaler is missing or the scaler or
\* the detector raises, the request falls back to the verdict NORMAL,
\* returns it and appends exactly one event with it; it never ends with an
\* error status and no event.
C6_FallsBackToNormal ==
    \A w \in Workers :
        /\ Posted(w, "phys") /\ PhysWellFormed(req[w].form)
        /\ HasDetector(FormZone(req[w].form))
        /\ FormTier(req[w].form) = NORMAL
        /\ req[w].fault # {}
        => /\ Ended(w) =>
                 req[w].result = NORMAL \/ req[w].result \in StoreErrors
           /\ req[w].pc = "done" /\ req[w].result \notin StoreErrors =>
                 OneEvent(w, NORMAL)

\* a 230 V reading of a zone whose detector loaded and whose scaler did not
\* ends with the KeyError as its status and nothing in the log
C6_ErrorAndNoEvent ==
    \E w \in Workers :
        /\ Posted(w, "phys") /\ req[w].pc = "done"
        /\ req[w].form["voltage"] = "230"
        /\ HasDetector(FormZone(req[w].form))
        /\ "zone_scalers" \notin DOMAIN models.phys
        /\ req[w].result = "Error: 'zone_scalers'"
        /\ req[w].wrote = {}
        /\ predictions = {}

-----------------------------------------------------------------------------
(* C7 *)

Malformed(w) ==
    /\ req[w].method = "POST"
    /\ ~WellFormed(req[w].domain, req[w].form)

\* C7: for every POST to either predictor in which a required field is
\* missing or fails its conversion, the caller receives a status embedding
\* the error message, no verdict is computed, and while the request runs no
\* event is appended to either log.
C7_MalformedLeavesLogs ==
    /\ [](\A w \in Workers :
             Malformed(w) /\ Ended(w) =>
                 /\ IsError(req[w].result)
                 /\ req[w].result =
                        "Error: " \o
                          (IF req[w].domain = "phys"
                           THEN FirstErr(req[w].form, PhysFields, PhysKinds)
                           ELSE FirstErr(req[w].form, CyberFields,
                                         CyberKinds))
                 /\ req[w].status = ""
                 /\ req[w].wrote = {})
    /\ [][(\E w \in Workers : Malformed(w)) =>
             UNCHANGED <<predictions, cyber_logs>>]_vars

\* a reading with the voltage "abc" ends with the ValueError as its status
C7_BadVoltageReported ==
    \E w \in Workers :
        /\ Posted(w, "phys") /\ req[w].pc = "done"
        /\ req[w].form["voltage"] = "abc"
        /\ req[w].result = "Error: could not convert string to float: 'abc'"
        /\ req[w].wrote = {}
        /\ predictions = {}

-----------------------------------------------------------------------------
(* C8 *)

\* C8: whenever the INSERT or the commit of an event fails, or the last-10
\* query fails, the caller sees an error; the caller is never shown a
\* verdict for an event that was not persisted.
C8_StoreFailureSurfaced ==
    \A w \in Workers :
        req[w].pc = "done" /\ req[w].method = "POST" =>
            /\ req[w].wrote = {} =>
                  req[w].http = 500 \/ IsError(req[w].result)
            /\ req[w].http = 200 =>
                  \A i \in 1..Len(req[w].history) :
                      req[w].history[i] \in Table(req[w].domain)

\* the commit raised "database is locked": the page shows the error and,
\* first in its history, the verdict of the event that is in no log
C8_UnpersistedVerdictShown ==
    \E w \in Workers :
        /\ req[w].pc = "done" /\ req[w].method = "POST"
        /\ req[w].http = 200
        /\ req[w].result = "Error: database is locked"
        /\ Len(req[w].history) >= 1
        /\ req[w].history[1] \notin Table(req[w].domain)
        /\ req[w].history[1].prediction_result = req[w].status

-----------------------------------------------------------------------------
(* C9 *)

\* the event as the handler appended it
Appended(w, id) ==
    IF req[w].domain = "phys"
    THEN [id |-> id,
          sensor_id |-> IntOf[req[w].form["sensor_id"]].v,
          location |-> IntOf[req[w].form["location"]].v,
          voltage |-> FloatOf[req[w].form["voltage"]].v,
          current |-> FloatOf[req[w].form["current"]].v,
          power |-> FloatOf[req[w].form["power"]].v,
          prediction_result |-> req[w].status]
    ELSE [id |-> id,
          source_ip |-> req[w].form["source_ip"],
          dest_ip |-> req[w].form["dest_ip"],
          protocol |-> req[w].form["protocol"],
          packet_len |-> FloatOf[req[w].form["packet_length"]].v,
          prediction_result |-> req[w].status]

\* C9: after N successful appends to one log, starting empty, the last-10
\* query returns min(N, 10) events in strictly descending id order, the
\* newest first, each with every input field and the verdict as appended.
C9_RoundTrip ==
    \A w \in Workers :
        req[w].pc = "done" /\ req[w].http = 200 /\ req[w].method = "POST"
        /\ Stored(w) =>
            LET h == req[w].history
            IN  /\ Len(h) = Min(Cardinality(Table(req[w].domain)), LIMIT)
                /\ \A i \in 1..(Len(h) - 1) : h[i].id > h[i + 1].id
                /\ \A r \in Table(req[w].domain) : r.id <= h[1].id
                /\ h[1] = Appended(w, h[1].id)

\* on PostgreSQL a packet posted with packet_length 900.4 comes back from
\* the log with packet_len 900
C9_LengthRounded ==
    \E w \in Workers :
        /\ Posted(w, "cyber") /\ req[w].pc = "done" /\ req[w].http = 200
        /\ Stored(w)
        /\ DATABASE_URL
        /\ req[w].form["packet_length"] = "900.4"
        /\ Len(req[w].history) = 1
        /\ req[w].history[1].packet_len = ParseFloat("900").v

-----------------------------------------------------------------------------
(* C10 *)

DistinctIds(rows) == \A r, q \in rows : r.id = q.id => r = q

\* the step adds exactly the one row the POST of some worker inserted, and
\* that request went through
AppendBy(domain, before, after) ==
    \E w \in Workers :
        /\ Posted(w, domain)
        /\ Cardinality(req[w].pending) = 1
        /\ after = before \cup req[w].pending
        /\ req'[w].wrote = req[w].pending
        /\ req'[w].result = req[w].status

\* C10 as amended: under any interleaving of two concurrent requests, an
\* event once in a log stays there unchanged; ids within a log are
\* distinct; the id an INSERT gives a new event is larger than the id of
\* every event in the log at that moment; and a log changes only by the
\* append of the one event of a successful POST of its own domain, the
\* other log unchanged.
C10_AppendOnly ==
    /\ [](DistinctIds(predictions) /\ DistinctIds(cyber_logs))
    /\ [][/\ predictions \subseteq predictions'
          /\ cyber_logs \subseteq cyber_logs'
          /\ predictions' # predictions =>
                /\ AppendBy("phys", predictions, predictions')
                /\ cyber_logs' = cyber_logs
          /\ cyber_logs' # cyber_logs =>
                /\ AppendBy("cyber", cyber_logs, cyber_logs')
                /\ predictions' = predictions
          /\ \A w \in Workers :
                req[w].pending = {} =>
                    \A r \in req'[w].pending :
                        \A q \in Table(req[w].domain) : r.id > q.id]_vars

\* C10 as written, its ordering part: each event that enters a log has an
\* id larger than every event already in that log.
C10_NewIdAboveLog ==
    [][/\ \A r \in predictions' \ predictions :
             \A q \in predictions : r.id > q.id
       /\ \A r \in cyber_logs' \ cyber_logs :
             \A q \in cyber_logs : r.id > q.id]_vars

\* two requests of the same domain hold an uncommitted event each, with
\* different ids
C10_TwoWritersAtOnce ==
    \E w, u \in Workers :
        /\ w # u
        /\ req[w].domain = req[u].domain
        /\ req[w].pc = "commit" /\ req[u].pc = "commit"
        /\ \E r \in req[w].pending : \E q \in req[u].pending : r.id < q.id

=============================================================================
